---- MODULE Spec2Model ----
(***************************************************************************)
(* A model of the A* pathfinder of src/main.py: the grid of coloured       *)
(* nodes, the search a_star_algorithm with reconstruct_path, and the input *)
(* loop of main that edits the grid and starts searches.                   *)
(***************************************************************************)
EXTENDS Integers, Sequences, FiniteSets, TLC

VARIABLES
    total_rows,     \* Node.total_rows, the rows of create_grid
    color,          \* Node.color of every node of the grid
    neighbours,     \* Node.neighbours of every node (a list of nodes)
    start_node,     \* main: start_node, or None
    end_node,       \* main: end_node, or None
    run,            \* main: run
    started,        \* main: started
    path_found,     \* main: path_found
    pc,             \* where the program is
    events,         \* main: what is left of the batch pygame.event.get() gave
    queue,          \* pygame's queue of events not yet fetched
    posted,         \* how many events have been put on pygame's queue
    count,          \* a_star_algorithm: count
    open_set,       \* a_star_algorithm: the entries of the PriorityQueue
    came_from,      \* a_star_algorithm: came_from (None: no key)
    g_score,        \* a_star_algorithm: g_score
    f_score,        \* a_star_algorithm: f_score
    open_set_hash,  \* a_star_algorithm: open_set_hash
    current,        \* a_star_algorithm / reconstruct_path: current
    result          \* what a_star_algorithm returned

gridVars == <<total_rows, color, neighbours>>
mainVars == <<start_node, end_node, run, started, path_found, events, posted>>
searchVars == <<count, open_set, came_from, g_score, f_score, open_set_hash, current, result>>
vars == <<total_rows, color, neighbours, start_node, end_node, run, started,
          path_found, pc, events, queue, posted, count, open_set, came_from,
          g_score, f_score, open_set_hash, current, result>>

----------------------------------------------------------------------------
(* Bounds of the model *)

\* rows of the grid main creates (the program uses 50)
ROWS == 3
\* how many events pygame's queue holds at once
MaxQueue == 1
\* how many events reach pygame's queue in one run of the program
MaxEvents == 6

----------------------------------------------------------------------------
(* Constants of the program *)

WIDTH == 800

WHITE == "WHITE"
BLACK == "BLACK"
RED == "RED"
GREEN == "GREEN"
PURPLE == "PURPLE"
PINK == "PINK"
BLUE == "BLUE"

\* Python's None; a node is its position <<row, col>>
None == <<>>

\* float("inf"): above every score a search can give
INF == 1000000

\* the events main and a_star_algorithm tell apart
QUIT == "QUIT"
K_SPACE == "K_SPACE"
K_r == "K_r"
MOUSEBUTTONDOWN == "MOUSEBUTTONDOWN"
OtherEvent == "OTHER"
EventKinds == {QUIT, K_SPACE, K_r, MOUSEBUTTONDOWN, OtherEvent}

\* pygame.mouse.get_pressed(): left held, right held (and not left), neither
MouseStates == {"left", "right", "none"}

\* pygame.mouse.get_pos(): pixel positions inside the window; the fourth lies
\* in the Restart button and the fifth in the Quit button
MousePositions ==
    {<<100, 100>>, <<100, 300>>, <<300, 100>>, <<300, 600>>, <<500, 600>>}

----------------------------------------------------------------------------
(* The grid *)

Cells(n) == (0 .. n - 1) \X (0 .. n - 1)

Abs(x) == IF x < 0 THEN -x ELSE x

heuristic(p1, p2) == Abs(p1[1] - p2[1]) + Abs(p1[2] - p2[2])

create_grid_color(rows) == [c \in Cells(rows) |-> WHITE]

create_grid_neighbours(rows) == [c \in Cells(rows) |-> <<>>]

get_clicked_pos(pos, rows, width) ==
    LET gap == width \div rows
    IN  <<pos[1] \div gap, pos[2] \div gap>>

is_barrier(col, node) == col[node] = BLACK

\* a Node that never reports being the start
is_start_never(col, node) == FALSE

is_start(col, node) == col[node] = PINK

\* Node.update_neighbours without its fourth direction
update_neighbours_no_left(node, col, rows) ==
    LET r == node[1]
        c == node[2]
        down  == IF r < rows - 1 /\ col[<<r + 1, c>>] # BLACK
                 THEN << <<r + 1, c>> >> ELSE <<>>
        up    == IF r > 0 /\ col[<<r - 1, c>>] # BLACK
                 THEN << <<r - 1, c>> >> ELSE <<>>
        right == IF c < rows - 1 /\ col[<<r, c + 1>>] # BLACK
                 THEN << <<r, c + 1>> >> ELSE <<>>
    IN  down \o up \o right

\* Node.update_neighbours without its is_barrier tests
update_neighbours_through_barriers(node, col, rows) ==
    LET r == node[1]
        c == node[2]
        down  == IF r < rows - 1 THEN << <<r + 1, c>> >> ELSE <<>>
        up    == IF r > 0 THEN << <<r - 1, c>> >> ELSE <<>>
        right == IF c < rows - 1 THEN << <<r, c + 1>> >> ELSE <<>>
        left  == IF c > 0 THEN << <<r, c - 1>> >> ELSE <<>>
    IN  down \o up \o right \o left

\* Node.update_neighbours: down, up, right, left, leaving out barriers
update_neighbours(node, col, rows) ==
    LET r == node[1]
        c == node[2]
        down  == IF r < rows - 1 /\ ~is_barrier(col, <<r + 1, c>>)
                 THEN << <<r + 1, c>> >> ELSE <<>>
        up    == IF r > 0 /\ ~is_barrier(col, <<r - 1, c>>)
                 THEN << <<r - 1, c>> >> ELSE <<>>
        right == IF c < rows - 1 /\ ~is_barrier(col, <<r, c + 1>>)
                 THEN << <<r, c + 1>> >> ELSE <<>>
        left  == IF c > 0 /\ ~is_barrier(col, <<r, c - 1>>)
                 THEN << <<r, c - 1>> >> ELSE <<>>
    IN  down \o up \o right \o left

\* main, lines 457-459: every node recomputes its neighbours
update_all_neighbours(col, rows) ==
    [node \in Cells(rows) |-> update_neighbours(node, col, rows)]

----------------------------------------------------------------------------
(* a_star_algorithm *)

\* PriorityQueue.get(): the least entry (priority, count, node); counts differ,
\* so two nodes are never compared
LeastEntry(os) ==
    CHOOSE e \in os : \A d \in os :
        e[1] < d[1] \/ (e[1] = d[1] /\ e[2] <= d[2])

\* the body of the loop over current.neighbours, for one neighbour
relax_neighbour(st, cur, neighbour, endn) ==
    LET temp_g_score == st.g[cur] + 1
        f == temp_g_score + heuristic(neighbour, endn)
        fresh == neighbour \notin st.osh
    IN  IF temp_g_score < st.g[neighbour]
        THEN [cf  |-> [st.cf EXCEPT ![neighbour] = cur],
              g   |-> [st.g EXCEPT ![neighbour] = temp_g_score],
              f   |-> [st.f EXCEPT ![neighbour] = f],
              cnt |-> IF fresh THEN st.cnt + 1 ELSE st.cnt,
              os  |-> IF fresh THEN st.os \cup {<<f, st.cnt + 1, neighbour>>}
                      ELSE st.os,
              osh |-> IF fresh THEN st.osh \cup {neighbour} ELSE st.osh,
              col |-> IF fresh THEN [st.col EXCEPT ![neighbour] = GREEN]
                      ELSE st.col]
        ELSE st

\* the loop over current.neighbours (st1, the state after one neighbour, is
\* bound once and handed on)
RECURSIVE relax_neighbours(_, _, _, _)
relax_neighbours(st, cur, nbs, endn) ==
    IF nbs = <<>> THEN st
    ELSE CHOOSE out \in
            { relax_neighbours(st1, cur, Tail(nbs), endn) :
                st1 \in {relax_neighbour(st, cur, Head(nbs), endn)} } : TRUE

\* lines 260-271: the locals of a search before its loop
AStarLocals(startn, endn, rows) ==
    [count |-> 0,
     open_set |-> {<<0, 0, startn>>},
     came_from |-> [c \in Cells(rows) |-> None],
     g_score |-> [c \in Cells(rows) |-> IF c = startn THEN 0 ELSE INF],
     f_score |-> [c \in Cells(rows) |->
                     IF c = startn THEN heuristic(startn, endn) ELSE INF],
     open_set_hash |-> {startn},
     current |-> None,
     result |-> FALSE]

\* the locals of a_star_algorithm while no search runs
NoLocals ==
    [count |-> 0, open_set |-> {}, came_from |-> <<>>, g_score |-> <<>>,
     f_score |-> <<>>, open_set_hash |-> {}, current |-> None, result |-> FALSE]

\* the frontier is empty at the head of the loop: return False
AStarFail ==
    /\ pc = "astar"
    /\ open_set = {}
    /\ result' = FALSE
    /\ pc' = "returned"
    /\ UNCHANGED <<gridVars, mainVars, queue, count, open_set, came_from,
                   g_score, f_score, open_set_hash, current>>

\* lines 274-277: a QUIT among the fetched events ends the process
AStarQuit ==
    /\ pc = "astar"
    /\ open_set # {}
    /\ \E i \in 1 .. Len(queue) : queue[i] = QUIT
    /\ queue' = <<>>
    /\ pc' = "exited"
    /\ UNCHANGED <<gridVars, mainVars, searchVars>>

\* lines 279-306: one turn of the loop without a QUIT (entry and st are bound
\* once: the popped entry, and the locals after the loop over the neighbours)
AStarExpand ==
    /\ pc = "astar"
    /\ open_set # {}
    /\ \A i \in 1 .. Len(queue) : queue[i] # QUIT
    /\ queue' = <<>>
    /\ \E entry \in {LeastEntry(open_set)} :
        LET cur == entry[3]
            st0 == [cf |-> came_from, g |-> g_score, f |-> f_score, cnt |-> count,
                    os |-> open_set \ {entry}, osh |-> open_set_hash \ {cur},
                    col |-> color]
        IN  /\ current' = cur
            /\ IF cur = end_node
               THEN /\ pc' = "reconstruct"
                    /\ open_set' = st0.os
                    /\ open_set_hash' = st0.osh
                    /\ UNCHANGED <<color, count, came_from, g_score, f_score>>
               ELSE \E st \in {relax_neighbours(st0, cur, neighbours[cur], end_node)} :
                    /\ pc' = "astar"
                    /\ came_from' = st.cf
                    /\ g_score' = st.g
                    /\ f_score' = st.f
                    /\ count' = st.cnt
                    /\ open_set' = st.os
                    /\ open_set_hash' = st.osh
                    /\ color' = IF cur # start_node
                                THEN [st.col EXCEPT ![cur] = RED]
                                ELSE st.col
    /\ UNCHANGED <<total_rows, neighbours, mainVars, result>>

\* reconstruct_path, lines 242-246: one turn of its loop
ReconstructStep ==
    /\ pc = "reconstruct"
    /\ came_from[current] # None
    /\ current' = came_from[current]
    /\ color' = IF ~is_start(color, came_from[current])
                THEN [color EXCEPT ![came_from[current]] = PURPLE]
                ELSE color
    /\ UNCHANGED <<total_rows, neighbours, mainVars, pc, queue, count, open_set,
                   came_from, g_score, f_score, open_set_hash, result>>

\* reconstruct_path returns; lines 284-285: end.make_end(), return True
AStarSucceed ==
    /\ pc = "reconstruct"
    /\ came_from[current] = None
    /\ color' = [color EXCEPT ![end_node] = BLUE]
    /\ result' = TRUE
    /\ pc' = "returned"
    /\ UNCHANGED <<total_rows, neighbours, mainVars, queue, count, open_set,
                   came_from, g_score, f_score, open_set_hash, current>>

----------------------------------------------------------------------------
(* a_star_algorithm on its own, started on every small grid *)

\* a grid after the edits of main and the recompute of lines 457-459
GridColor(rows, startn, endn, barriers) ==
    [c \in Cells(rows) |->
        IF c = startn THEN PINK
        ELSE IF c = endn THEN BLUE
        ELSE IF c \in barriers THEN BLACK
        ELSE WHITE]

\* every grid of two or three rows with distinct Start and End
SmallGrids ==
    UNION { { [rows |-> x[1], start |-> x[2], end |-> x[3], barriers |-> b] :
                b \in SUBSET (Cells(x[1]) \ {x[2], x[3]}) } :
            x \in { y \in {2, 3} \X Cells(3) \X Cells(3) :
                      /\ y[2] \in Cells(y[1])
                      /\ y[3] \in Cells(y[1])
                      /\ y[2] # y[3] } }

\* two mazes on which a frontier node is improved while it waits, and all the
\* mazes with fewer of their barriers
MazeA == {<<1, 2>>, <<3, 3>>, <<4, 2>>, <<5, 5>>, <<6, 3>>, <<6, 4>>}

MazeB == {<<1, 0>>, <<1, 4>>, <<1, 5>>, <<2, 2>>, <<4, 4>>, <<5, 0>>, <<5, 5>>, <<6, 1>>}

MazeGrids ==
    { [rows |-> 8, start |-> <<0, 2>>, end |-> <<7, 4>>, barriers |-> b] :
        b \in SUBSET MazeA }
    \cup
    { [rows |-> 7, start |-> <<0, 4>>, end |-> <<6, 0>>, barriers |-> b] :
        b \in SUBSET MazeB }

SearchGrids == SmallGrids \cup MazeGrids

\* before any grid exists
SearchInit ==
    /\ total_rows = 0
    /\ color = <<>>
    /\ neighbours = <<>>
    /\ start_node = None
    /\ end_node = None
    /\ run = TRUE
    /\ started = FALSE
    /\ path_found = FALSE
    /\ pc = "idle"
    /\ events = <<>>
    /\ queue = <<>>
    /\ posted = 0
    /\ count = NoLocals.count
    /\ open_set = NoLocals.open_set
    /\ came_from = NoLocals.came_from
    /\ g_score = NoLocals.g_score
    /\ f_score = NoLocals.f_score
    /\ open_set_hash = NoLocals.open_set_hash
    /\ current = NoLocals.current
    /\ result = NoLocals.result

\* create_grid, the colours of an edited grid, update_neighbours on every node
\* and the call of a_star_algorithm up to its loop
SearchCall ==
    /\ pc = "idle"
    /\ \E gr \in SearchGrids :
        LET col == GridColor(gr.rows, gr.start, gr.end, gr.barriers)
            loc == AStarLocals(gr.start, gr.end, gr.rows)
        IN  /\ total_rows' = gr.rows
            /\ color' = col
            /\ neighbours' = update_all_neighbours(col, gr.rows)
            /\ start_node' = gr.start
            /\ end_node' = gr.end
            /\ count' = loc.count
            /\ open_set' = loc.open_set
            /\ came_from' = loc.came_from
            /\ g_score' = loc.g_score
            /\ f_score' = loc.f_score
            /\ open_set_hash' = loc.open_set_hash
            /\ current' = loc.current
            /\ result' = loc.result
    /\ pc' = "astar"
    /\ UNCHANGED <<run, started, path_found, events, queue, posted>>

SearchSteps ==
    \/ AStarExpand
    \/ AStarFail
    \/ ReconstructStep
    \/ AStarSucceed

SearchNext ==
    \/ SearchCall
    \/ SearchSteps

SearchSpec == SearchInit /\ [][SearchNext]_vars

\* a search that has begun keeps taking its steps
SearchLiveSpec == SearchSpec /\ WF_vars(SearchSteps)

----------------------------------------------------------------------------
(* main: the input loop *)

\* the variables of main an event handler reads and writes
MainState ==
    [color |-> color, neighbours |-> neighbours, start_node |-> start_node,
     end_node |-> end_node, run |-> run, started |-> started,
     path_found |-> path_found]

\* an event loop that lets QUIT pass
on_quit_ignored(m, event) == m

\* lines 424-425: a QUIT event clears run
on_quit(m, event) ==
    IF event = QUIT THEN [m EXCEPT !.run = FALSE] ELSE m

\* the left button without the tests that spare Start and End in the
\* barrier branch
left_click_over_roles(m, node) ==
    IF m.start_node = None /\ node # m.end_node
    THEN [m EXCEPT !.start_node = node, !.color[node] = PINK]
    ELSE IF m.end_node = None /\ node # m.start_node
    THEN [m EXCEPT !.end_node = node, !.color[node] = BLUE]
    ELSE [m EXCEPT !.color[node] = BLACK]

\* lines 430-443: the left button is held over `node`
left_click(m, node) ==
    IF m.start_node = None /\ node # m.end_node
    THEN [m EXCEPT !.start_node = node, !.color[node] = PINK]
    ELSE IF m.end_node = None /\ node # m.start_node
    THEN [m EXCEPT !.end_node = node, !.color[node] = BLUE]
    ELSE IF node # m.end_node /\ node # m.start_node
    THEN [m EXCEPT !.color[node] = BLACK]
    ELSE m

\* lines 445-453: the right button is held over `node`
right_click(m, node) ==
    LET cleared == [m EXCEPT !.color[node] = WHITE]
    IN  IF node = m.start_node THEN [cleared EXCEPT !.start_node = None]
        ELSE IF node = m.end_node THEN [cleared EXCEPT !.end_node = None]
        ELSE cleared

\* lines 430-453: the buttons held when the event is handled
on_mouse(m, mouse, pos) ==
    IF mouse = "left" THEN left_click(m, get_clicked_pos(pos, total_rows, WIDTH))
    ELSE IF mouse = "right" THEN right_click(m, get_clicked_pos(pos, total_rows, WIDTH))
    ELSE m

\* lines 467-471 and 479-483: a fresh grid, no Start, no End, editing again
reset_grid(m) ==
    [m EXCEPT !.start_node = None, !.end_node = None,
              !.color = create_grid_color(total_rows),
              !.neighbours = create_grid_neighbours(total_rows),
              !.started = FALSE, !.path_found = FALSE]

\* lines 466-471: the key r
on_reset_key(m, event) ==
    IF event = K_r THEN reset_grid(m) ELSE m

\* lines 477 and 484: the screen regions of the two buttons
in_restart_button(pos) ==
    240 <= pos[1] /\ pos[1] <= 360 /\ 570 <= pos[2] /\ pos[2] <= 630

in_quit_button(pos) ==
    440 <= pos[1] /\ pos[1] <= 560 /\ 570 <= pos[2] /\ pos[2] <= 630

\* lines 473-486: after a found path, a press of button 1 on Restart or Quit
on_button(m, event, pos) ==
    IF m.path_found /\ event = MOUSEBUTTONDOWN
    THEN IF in_restart_button(pos) THEN reset_grid(m)
         ELSE IF in_quit_button(pos) THEN [m EXCEPT !.run = FALSE]
         ELSE m
    ELSE m

\* line 427: main skips the event when a search has run and found no path
skips_event(m) == m.started /\ ~m.path_found

\* line 456: the space key with Start and End set starts a search
starts_search(m, event) ==
    event = K_SPACE /\ m.start_node # None /\ m.end_node # None

\* lines 424-453: the handler up to the test of the keys
before_keys(m, event, mouse, pos) ==
    IF skips_event(m) THEN on_quit(m, event)
    ELSE on_mouse(on_quit(m, event), mouse, pos)

\* lines 466-486: the handler from the key r on
after_search_key(m, event, pos) ==
    on_button(on_reset_key(m, event), event, pos)

SetMain(m) ==
    /\ color' = m.color
    /\ neighbours' = m.neighbours
    /\ start_node' = m.start_node
    /\ end_node' = m.end_node
    /\ run' = m.run
    /\ started' = m.started
    /\ path_found' = m.path_found

SetLocals(loc) ==
    /\ count' = loc.count
    /\ open_set' = loc.open_set
    /\ came_from' = loc.came_from
    /\ g_score' = loc.g_score
    /\ f_score' = loc.f_score
    /\ open_set_hash' = loc.open_set_hash
    /\ current' = loc.current
    /\ result' = loc.result

\* where main goes on once an event is handled
AfterEvent(rest) == IF rest = <<>> THEN "main" ELSE "events"

\* the user or the window system puts an event on pygame's queue
PostEvent ==
    /\ pc # "exited"
    /\ Len(queue) < MaxQueue
    /\ posted < MaxEvents
    /\ \E event \in EventKinds : queue' = Append(queue, event)
    /\ posted' = posted + 1
    /\ UNCHANGED <<gridVars, start_node, end_node, run, started, path_found,
                   events, pc, searchVars>>

\* lines 418-423: the head of the loop with run set fetches the queued events
MainFetch ==
    /\ pc = "main"
    /\ run
    /\ queue # <<>>
    /\ events' = queue
    /\ queue' = <<>>
    /\ pc' = "events"
    /\ UNCHANGED <<gridVars, start_node, end_node, run, started, path_found,
                   posted, searchVars>>

\* lines 418 and 488: the loop ends once run is cleared
MainExit ==
    /\ pc = "main"
    /\ ~run
    /\ pc' = "exited"
    /\ UNCHANGED <<gridVars, mainVars, queue, searchVars>>

\* lines 424-486: main handles the next event of the batch; the space key with
\* Start and End set recomputes the neighbours and enters a_star_algorithm
HandleEvent ==
    /\ pc = "events"
    /\ events # <<>>
    /\ events' = Tail(events)
    /\ \E mouse \in MouseStates, pos \in MousePositions :
       \E m \in {before_keys(MainState, Head(events), mouse, pos)} :
          IF ~skips_event(MainState) /\ starts_search(m, Head(events))
          THEN /\ SetMain([m EXCEPT
                       !.neighbours = update_all_neighbours(m.color, total_rows)])
               /\ SetLocals(AStarLocals(m.start_node, m.end_node, total_rows))
               /\ pc' = "astar"
          ELSE /\ SetMain(IF skips_event(MainState) THEN m
                          ELSE after_search_key(m, Head(events), pos))
               /\ pc' = AfterEvent(Tail(events))
               /\ UNCHANGED searchVars
    /\ UNCHANGED <<total_rows, queue, posted>>

\* lines 461-464: a_star_algorithm has returned into the handler
SearchReturn ==
    /\ pc = "returned"
    /\ path_found' = result
    /\ started' = TRUE
    /\ SetLocals(NoLocals)
    /\ pc' = AfterEvent(events)
    /\ UNCHANGED <<gridVars, start_node, end_node, run, events, queue, posted>>

Init ==
    /\ total_rows = ROWS
    /\ color = create_grid_color(ROWS)
    /\ neighbours = create_grid_neighbours(ROWS)
    /\ start_node = None
    /\ end_node = None
    /\ run = TRUE
    /\ started = FALSE
    /\ path_found = FALSE
    /\ pc = "main"
    /\ events = <<>>
    /\ queue = <<>>
    /\ posted = 0
    /\ count = NoLocals.count
    /\ open_set = NoLocals.open_set
    /\ came_from = NoLocals.came_from
    /\ g_score = NoLocals.g_score
    /\ f_score = NoLocals.f_score
    /\ open_set_hash = NoLocals.open_set_hash
    /\ current = NoLocals.current
    /\ result = NoLocals.result

\* the steps the program takes by itself
ProgramStep ==
    \/ MainFetch
    \/ MainExit
    \/ HandleEvent
    \/ SearchReturn
    \/ AStarQuit
    \/ SearchSteps

Next ==
    \/ PostEvent
    \/ ProgramStep

Spec == Init /\ [][Next]_vars

\* the program keeps running while it has a step to take
LiveSpec == Spec /\ WF_vars(ProgramStep)

----------------------------------------------------------------------------
(* What the claims speak of, computed from the grid alone *)

Adjacent(a, b) == heuristic(a, b) = 1

Passable == {c \in Cells(total_rows) : color[c] # BLACK}

\* the passable cells one orthogonal move away from a cell of S
Around(S) == {c \in Passable : \E a \in S : Adjacent(a, c)}

\* breadth-first search: the distance from the layer `layer` (at distance d,
\* everything nearer being in `seen`) to `target`, or -1 when there is no way
RECURSIVE BreadthFirst(_, _, _, _)
BreadthFirst(layer, seen, d, target) ==
    IF target \in layer THEN d
    ELSE IF layer = {} THEN -1
    ELSE CHOOSE out \in
            { BreadthFirst(next[1], next[2], d + 1, target) :
                next \in { <<far, seen \cup far>> :
                             far \in {Around(layer) \ seen} } } : TRUE

ShortestDistance(a, b) == BreadthFirst({a}, {a}, 0, b)

RECURSIVE Closure(_)
Closure(S) ==
    CHOOSE out \in
        { IF next = S THEN S ELSE Closure(next) : next \in {S \cup Around(S)} } : TRUE

ReachableFrom(a) == Closure({a})

\* the walk of reconstruct_path: the nodes from `node` back along came_from
RECURSIVE WalkBack(_)
WalkBack(node) ==
    IF came_from[node] = None THEN <<node>>
    ELSE <<node>> \o WalkBack(came_from[node])

ReturnedTrue == pc = "returned" /\ result
ReturnedFalse == pc = "returned" /\ ~result

\* a step of a_star_algorithm that pops a node from the frontier
PopStep == pc = "astar" /\ pc' \in {"astar", "reconstruct"}

\* the count a frontier node was inserted with
CountOf(node) == (CHOOSE e \in open_set : e[3] = node)[2]

----------------------------------------------------------------------------
(* The claims *)

\* C1: when a_star_algorithm returns True, the path that came_from gives from
\* End back to Start has as many steps as the shortest way from Start to End
\* over non-barrier orthogonal moves.
C1_Optimality ==
    ReturnedTrue =>
        Len(WalkBack(end_node)) - 1 = ShortestDistance(start_node, end_node)

\* C2: a search that no quit interrupts returns; it returns True exactly when
\* End is reachable from Start, and when it returns False the frontier is empty
\* and the run has marked no cell Path.
C2_NoPathDetection ==
    /\ (pc = "astar") ~> (pc = "returned")
    /\ [](pc = "returned" =>
            /\ result <=> end_node \in ReachableFrom(start_node)
            /\ ~result => /\ open_set = {}
                          /\ open_set_hash = {}
                          /\ \A c \in Cells(total_rows) : color[c] # PURPLE)

C2_Witness ==
    /\ ReturnedFalse
    /\ \E c \in Cells(total_rows) : color[c] = RED
    /\ \E c \in Cells(total_rows) : color[c] = BLACK

\* C7: every node popped from the frontier has the least current f_score of
\* the frontier, and among the frontier nodes of that f_score it is the one
\* inserted first.
C7_FrontierOrdering ==
    [][PopStep =>
        \A m \in open_set_hash :
            /\ f_score[current'] <= f_score[m]
            /\ f_score[m] = f_score[current'] => CountOf(current') <= CountOf(m)]_vars

\* C8: a node that has been popped and expanded (it is Closed) never has its
\* g_score lowered again and never comes back into the frontier, so no node
\* is expanded twice.
C8_NoRelaxAfterClosing ==
    [][pc = "astar" =>
        \A c \in Cells(total_rows) :
            color[c] = RED =>
                /\ g_score'[c] = g_score[c]
                /\ c \notin open_set_hash'
                /\ color'[c] = RED]_vars

\* a row of barriers with one opening that lies between Start and End
OpeningRows ==
    {r \in 0 .. total_rows - 1 :
        /\ Cardinality({c \in 0 .. total_rows - 1 : color[<<r, c>>] # BLACK}) = 1
        /\ \/ start_node[1] < r /\ r < end_node[1]
           \/ end_node[1] < r /\ r < start_node[1]}

Opening(r) == CHOOSE o \in Cells(total_rows) : o[1] = r /\ color[o] # BLACK

InWalk(walk, node) == \E i \in 1 .. Len(walk) : walk[i] = node

\* C9: when a_star_algorithm returns True, the walk along came_from from End
\* reaches Start; its consecutive nodes are orthogonal neighbours; none is a
\* barrier; the nodes between End and Start are marked Path; Start is still
\* Start and End is End; and the walk passes the opening of every barrier
\* row between Start and End.
C9_PathValidity ==
    ReturnedTrue =>
        LET walk == WalkBack(end_node)
        IN  /\ walk[1] = end_node
            /\ walk[Len(walk)] = start_node
            /\ \A i \in 1 .. Len(walk) - 1 : Adjacent(walk[i], walk[i + 1])
            /\ \A i \in 1 .. Len(walk) : color[walk[i]] # BLACK
            /\ \A i \in 2 .. Len(walk) - 1 : color[walk[i]] = PURPLE
            /\ color[start_node] = PINK
            /\ color[end_node] = BLUE
            /\ \A r \in OpeningRows : InWalk(walk, Opening(r))

C9_Witness ==
    /\ ReturnedTrue
    /\ OpeningRows # {}
    /\ \A r \in OpeningRows : color[Opening(r)] = PURPLE
    /\ Len(WalkBack(end_node)) > 3

----------------------------------------------------------------------------
(* The claims about the input loop *)

InBatch(event) == \E i \in 1 .. Len(events) : events[i] = event
InQueue(event) == \E i \in 1 .. Len(queue) : queue[i] = event

\* main is about to handle `event`, the head of its batch
Handling(event) == pc = "events" /\ events # <<>> /\ Head(events) = event

\* a step in which main handles the head of its batch
HandlingStep(event) == Handling(event) /\ events' = Tail(events)

\* the state reset_grid leaves: an all-Empty grid, no Start, no End, editing
FreshEditing ==
    /\ color = create_grid_color(total_rows)
    /\ start_node = None
    /\ end_node = None
    /\ ~started
    /\ ~path_found

\* a search has run and found no path
AfterFailure == started /\ ~path_found

\* C3: in every state of the input loop, handling a press of the reset key
\* leaves an all-Empty grid, no Start, no End, started and path_found False.
C3_ResetUnconditional ==
    [][HandlingStep(K_r) => FreshEditing']_vars

\* C4: a failed search leaves the colours as they were when it returned, and
\* after it a press of button 1 in the Restart region gives a fresh editing
\* grid and one in the Quit region ends the input loop.
C4_ControlsAfterFailure ==
    /\ [][pc = "returned" /\ ~result => color' = color]_vars
    /\ [](AfterFailure /\ Handling(MOUSEBUTTONDOWN) =>
            /\ ENABLED (HandleEvent /\ FreshEditing')
            /\ ENABLED (HandleEvent /\ ~run'))

CellsOf(paint) == {c \in Cells(total_rows) : color[c] = paint}

\* C5: at most one cell is Start and at most one is End, at every step of the
\* input loop and of every search, and no step turns the cell that holds the
\* Start or the End role into a Barrier.
C5_OneStartOneEnd ==
    /\ [](Cardinality(CellsOf(PINK)) <= 1 /\ Cardinality(CellsOf(BLUE)) <= 1)
    /\ [][\A c \in Cells(total_rows) :
            (c \in {start_node, end_node} => color'[c] # BLACK)]_vars

C5_Witness ==
    /\ pc = "astar"
    /\ end_node # None
    /\ color[end_node] = GREEN
    /\ CellsOf(PINK) = {start_node}
    /\ CellsOf(BLACK) # {}

\* C6: a QUIT that has been issued ends the process, whatever state the
\* program is in; a search that fetches it at the head of its loop ends there,
\* with no cell expanded or recoloured, and nothing is recoloured afterwards.
C6_QuitHonoured ==
    /\ (InQueue(QUIT) \/ InBatch(QUIT)) ~> (pc = "exited")
    /\ [][pc = "astar" /\ open_set # {} /\ InQueue(QUIT) /\ queue' = <<>> =>
            (pc' = "exited" /\ color' = color /\ UNCHANGED searchVars)]_vars
    /\ [][pc = "exited" => color' = color /\ pc' = "exited"]_vars

C6_Witness ==
    /\ pc = "exited"
    /\ open_set # {}
    /\ CellsOf(RED) # {}

\* C10: a step of a search changes a cell only to Open, Closed or Path, or End
\* back to End as it returns True; it leaves Start, every Barrier and every
\* cell not reachable from Start as they are, and does not change the Start
\* and End references.
C10_SearchFrame ==
    [][(pc \in {"astar", "reconstruct"}) =>
       (/\ \A c \in Cells(total_rows) :
            /\ color'[c] # color[c] =>
                \/ color'[c] \in {GREEN, RED, PURPLE}
                \/ c = end_node /\ color'[c] = BLUE /\ pc' = "returned" /\ result'
            /\ color[c] = BLACK => color'[c] = BLACK
            /\ c \notin ReachableFrom(start_node) => color'[c] = color[c]
        /\ color'[start_node] = color[start_node]
        /\ start_node' = start_node
        /\ end_node' = end_node)]_vars

C10_Witness ==
    /\ ReturnedFalse
    /\ end_node \notin ReachableFrom(start_node)
    /\ color[end_node] = BLUE
    /\ CellsOf(RED) # {}
    /\ CellsOf(BLACK) # {}

====
